---- MODULE Spec2Model ----
(***************************************************************************)
(* Ver4DictBuffers::flushHeaderAndDictBuffers (ver4_dict_buffers.cpp):     *)
(* the staging of a version-4 dictionary in a temporary sibling directory  *)
(* and its swap into the dictionary directory.                             *)
(*                                                                         *)
(* The file system is two paths, dictDirPath ("canon") and tmpDirPath      *)
(* ("tmp").  Each path is absent, a regular file, or a directory holding   *)
(* files.  One process owns at most one Ver4DictBuffers instance, opened   *)
(* from dictDirPath or created fresh, updates it and flushes it; it may be *)
(* killed between any two steps of a flush and be started again.           *)
(***************************************************************************)
EXTENDS Integers, Sequences, FiniteSets, TLC

(* Largest number of in-memory edits made to the dictionary. *)
MaxEdits == 1

(***************************************************************************)
(* Files and their contents                                                *)
(***************************************************************************)

(* The six files of a dictionary, in the order flush writes them. *)
Sections == <<"header", "trie", "lookup", "probability", "bigram", "shortcut">>

SectionSet == {Sections[i] : i \in 1..Len(Sections)}

(* A file that is no part of a dictionary, left in a stale directory. *)
LeftoverName == "leftover"

FileNames == SectionSet \cup {LeftoverName}

(* Content of a file: <<buffer it was serialized from, edit generation>>. *)
NoFile == <<"none", 0>>

Truncated(s) == <<s, -1>>

(* The bytes of a buffer of length 0, and of a file of length 0. *)
EmptyBytes == <<"empty", 0>>

(* A file that is there and was written to its end. *)
IsWhole(b) == b # NoFile /\ b[2] >= 0

LeftoverBytes == <<"junk", 0>>

NoFiles == [n \in FileNames |-> NoFile]

Absent == [kind |-> "absent", files |-> NoFiles]

RegularFile == [kind |-> "file", files |-> NoFiles]

EmptyDir == [kind |-> "dir", files |-> NoFiles]

(* The buffers of an instance after its edit g. *)
GenBuf(g) == [s \in SectionSet |-> <<s, g>>]

(* The buffers of an instance that holds nothing yet. *)
EmptyBuf == [s \in SectionSet |-> EmptyBytes]

(* The complete dictionary serialized from the buffers buf. *)
ImageOf(buf) ==
    [kind |-> "dir",
     files |-> [n \in FileNames |-> IF n \in SectionSet THEN buf[n] ELSE NoFile]]

(* The complete dictionary serialized from the in-memory state of edit g. *)
Image(g) == ImageOf(GenBuf(g))

(* A leftover of an earlier flush: a part of an image and a foreign file. *)
StaleLeftover ==
    [kind |-> "dir",
     files |-> [n \in FileNames |->
                  IF n = "header" THEN <<n, 0>>
                  ELSE IF n = LeftoverName THEN LeftoverBytes
                  ELSE NoFile]]

(* A directory holding the six files of a dictionary, whole, and no other. *)
IsCompleteImage(d) ==
    /\ d.kind = "dir"
    /\ \A s \in SectionSet : IsWhole(d.files[s])
    /\ d.files[LeftoverName] = NoFile

VARIABLES
    disk,         \* [canon |-> directory at dictDirPath, tmp |-> at tmpDirPath]
    edits,        \* number of in-memory edits made so far
    inst,         \* the Ver4DictBuffers instance of the process
    pc,           \* position of the process inside flushHeaderAndDictBuffers
    alive,        \* FALSE once the process was killed
    result,       \* what the last call returned: "none", "true", "false"
    ops,          \* file-system operations the call attempted: <<name, ok>>
    mask,         \* the process's file-creation mask
    diskAtCall,   \* disk when the call started
    instAtCall,   \* inst when the call started
    maskAtCall,   \* mask when the call started
    failureResults \* values returned so far for a failure before the rename
                   \* (early) and for a failure of the rename (late)

vars == <<disk, edits, inst, pc, alive, result, ops, mask, diskAtCall,
          instAtCall, maskAtCall, failureResults>>

(* S_IWGRP | S_IWOTH = 020 | 002 *)
S_IWGRP_S_IWOTH == 18

InheritedMask == 0

(***************************************************************************)
(* Collaborators                                                           *)
(***************************************************************************)

(* FileUtils::existsDir *)
existsDir(d) == d.kind = "dir"

(* FileUtils::removeDirAndFiles: the outcomes for a path in state d, as     *)
(* <<returned value, state of the path afterwards>>.                        *)
removeDirAndFiles(d) ==
    IF d.kind = "dir"
    THEN {<<TRUE, Absent>>, <<FALSE, d>>}
    ELSE {<<TRUE, d>>}

(* mkdir(2) *)
mkdir(d) ==
    IF d.kind = "absent"
    THEN {<<TRUE, EmptyDir>>, <<FALSE, d>>}
    ELSE {<<FALSE, d>>}

(* rename(2) of directory from onto path to: <<ok, from', to'>>. *)
rename(from, to) ==
    IF /\ from.kind = "dir"
       /\ \/ to.kind = "absent"
          \/ to.kind = "dir" /\ to.files = NoFiles
    THEN {<<TRUE, Absent, from>>, <<FALSE, from, to>>}
    ELSE {<<FALSE, from, to>>}

(* The bytes a buffer of the instance serializes to. *)
BufferBytes(s) == inst.buf[s]

(* DictFileWritingUtils::flushBufferToFileWithSuffix and                   *)
(* <content>.flushToFile: write bytes to file name in directory d.         *)
flushToFile(d, name, bytes) ==
    IF d.kind = "dir"
    THEN {<<TRUE, [d EXCEPT !.files[name] = bytes]>>,
          <<FALSE, d>>,
          <<FALSE, [d EXCEPT !.files[name] = Truncated(bytes[1])]>>}
    ELSE {<<FALSE, d>>}


(***************************************************************************)
(* Ver4DictBuffers: construction                                           *)
(***************************************************************************)

(* The four dictionary contents, in the order of their construction. *)
ContentNames == <<"lookup", "probability", "bigram", "shortcut">>

ContentSet == {ContentNames[i] : i \in 1..Len(ContentNames)}

(* A Ver4DictBuffersPtr and what it points to.                             *)
(*   origin        "none": the process has no handle; "invalid": nullptr;  *)
(*                 "opened", "fresh": the constructor that made it         *)
(*   headerArg     the headerBuffer passed: "null", "ro" or "rw"           *)
(*   mHeaderBuffer, mDictBuffer  "unset", "null", "ro" or "rw"             *)
(*   opened        the files construction opened: <<name, isUpdatable>>    *)
(*   trieBaseLength  length of the base region of mExpandableTrieBuffer    *)
(*   buf           the bytes of the header, trie and content buffers       *)
Handle(origin, headerArg, isUpdatable, header, trie, opened, baseLength, buf) ==
    [origin |-> origin, headerArg |-> headerArg, mIsUpdatable |-> isUpdatable,
     mHeaderBuffer |-> header, mDictBuffer |-> trie, opened |-> opened,
     trieBaseLength |-> baseLength, buf |-> buf]

NoInstance == Handle("none", "null", FALSE, "unset", "unset", {}, 0, EmptyBuf)

(* MmappedBuffer::getBufferSize of a region mapped over bytes b. *)
getBufferSize(b) == IF b = EmptyBytes THEN 0 ELSE b[2] + 1

IsInstance(h) == h.origin \in {"opened", "fresh"}

(* MmappedBuffer::isUpdatable *)
isUpdatable(region) == region = "rw"

(* MmappedBuffer::openBuffer: the regions a call can return for file name  *)
(* of directory d.                                                         *)
openBuffer(d, name, updatable) ==
    IF d.kind = "dir" /\ IsWhole(d.files[name])
    THEN {"null", IF updatable THEN "rw" ELSE "ro"}
    ELSE {"null"}

(* The header regions a caller can pass for directory d. *)
HeaderBuffers(d) == openBuffer(d, "header", TRUE) \cup openBuffer(d, "header", FALSE)

(* A content constructed from the files of directory d. *)
LoadContent(d, name) ==
    IF d.kind = "dir" /\ IsWhole(d.files[name]) THEN d.files[name] ELSE EmptyBytes

(* Mutant: the trie buffer is built over the header region. *)
ConstructOpenedTrieOverHeader(d, headerBuffer, updatable, trie) ==
    Handle("opened", headerBuffer, updatable, headerBuffer, trie,
           {<<"trie", updatable>>} \cup {<<c, updatable>> : c \in ContentSet},
           IF trie = "null" THEN 0 ELSE getBufferSize(d.files["trie"]),
           [s \in SectionSet |->
              IF s \in {"header", "trie"} THEN d.files["header"]
              ELSE LoadContent(d, s)])

(* Mutant: the contents are always opened updatable. *)
ConstructOpenedContentsUpdatable(d, headerBuffer, updatable, trie) ==
    Handle("opened", headerBuffer, updatable, headerBuffer, trie,
           {<<"trie", updatable>>} \cup {<<c, TRUE>> : c \in ContentSet},
           IF trie = "null" THEN 0 ELSE getBufferSize(d.files["trie"]),
           [s \in SectionSet |->
              IF s = "header" THEN d.files["header"]
              ELSE IF s = "trie"
                   THEN (IF trie = "null" THEN EmptyBytes ELSE d.files["trie"])
                   ELSE LoadContent(d, s)])

(* Ver4DictBuffers(dictPath, headerBuffer, isUpdatable, formatVersion);    *)
(* trie is what MmappedBuffer::openBuffer returned for the trie file.      *)
ConstructOpened(d, headerBuffer, updatable, trie) ==
    Handle("opened", headerBuffer, updatable, headerBuffer, trie,
           {<<"trie", updatable>>} \cup {<<c, updatable>> : c \in ContentSet},
           IF trie = "null" THEN 0 ELSE getBufferSize(d.files["trie"]),
           [s \in SectionSet |->
              IF s = "header" THEN d.files["header"]
              ELSE IF s = "trie"
                   THEN (IF trie = "null" THEN EmptyBytes ELSE d.files["trie"])
                   ELSE LoadContent(d, s)])

(* Ver4DictBuffers(headerPolicy, maxTrieSize) *)
ConstructFresh ==
    Handle("fresh", "null", TRUE, "null", "null", {}, 0, EmptyBuf)

(* Mutant: the header buffer is not checked before construction. *)
openVer4DictBuffersUnchecked(d, headerBuffer, trie) ==
    ConstructOpened(d, headerBuffer, isUpdatable(headerBuffer), trie)

(* Mutant: a trie file that cannot be mapped makes the open fail. *)
openVer4DictBuffersNeedsTrie(d, headerBuffer, trie) ==
    IF headerBuffer = "null" \/ trie = "null"
    THEN Handle("invalid", headerBuffer, FALSE, "unset", trie, {}, 0, EmptyBuf)
    ELSE ConstructOpened(d, headerBuffer, isUpdatable(headerBuffer), trie)

(* openVer4DictBuffers(dictPath, headerBuffer, formatVersion), with the    *)
(* region the trie file's openBuffer returns when it is called.            *)
openVer4DictBuffers(d, headerBuffer, trie) ==
    IF headerBuffer = "null"
    THEN Handle("invalid", headerBuffer, FALSE, "unset", "unset", {}, 0, EmptyBuf)
    ELSE ConstructOpened(d, headerBuffer, isUpdatable(headerBuffer), trie)

(* The caller goes on: what the last call returned and did is behind it. *)
ForgetCall ==
    /\ result' = "none"
    /\ ops' = <<>>
    /\ diskAtCall' = disk
    /\ instAtCall' = inst'
    /\ maskAtCall' = mask

(* The process is in no call. *)
Idle == alive /\ pc = "idle"

(* The process is at position p of flushHeaderAndDictBuffers. *)
At(p) == alive /\ pc = p

OpenExisting ==
    /\ Idle
    /\ ~IsInstance(inst)
    /\ \E h \in HeaderBuffers(disk.canon) :
         \E t \in openBuffer(disk.canon, "trie", isUpdatable(h)) :
            inst' = openVer4DictBuffers(disk.canon, h, t)
    /\ ForgetCall
    /\ UNCHANGED <<disk, edits, pc, alive, mask, failureResults>>

CreateFresh ==
    /\ Idle
    /\ ~IsInstance(inst)
    /\ inst' = ConstructFresh
    /\ ForgetCall
    /\ UNCHANGED <<disk, edits, pc, alive, mask, failureResults>>

(* The instance is destroyed. *)
Close ==
    /\ Idle
    /\ IsInstance(inst)
    /\ inst' = NoInstance
    /\ ForgetCall
    /\ UNCHANGED <<disk, edits, pc, alive, mask, failureResults>>

(***************************************************************************)
(* flushHeaderAndDictBuffers                                               *)
(***************************************************************************)

Return(r) ==
    /\ pc' = "idle"
    /\ result' = r
    /\ failureResults' =
         IF r = "true" THEN failureResults
         ELSE IF ops'[Len(ops')][1] = "rename"
              THEN [failureResults EXCEPT !.late = @ \cup {r}]
              ELSE [failureResults EXCEPT !.early = @ \cup {r}]

Attempt(name, ok) == ops' = Append(ops, <<name, ok>>)

(* Mutant: dictPath built from dictDirPath instead of tmpDirPath. *)
DictPathDirInCanonical == "canon"

(* The directory dictPath lies in: tmpDirPath. *)
DictPathDir == "tmp"

(* An in-memory update of the dictionary between two flushes. *)
Update ==
    /\ Idle
    /\ IsInstance(inst)
    /\ inst.mIsUpdatable
    /\ edits < MaxEdits
    /\ edits' = edits + 1
    /\ inst' = [inst EXCEPT !.buf = GenBuf(edits + 1)]
    /\ ForgetCall
    /\ UNCHANGED <<disk, pc, alive, mask, failureResults>>

CallFlush ==
    /\ Idle
    /\ IsInstance(inst)
    /\ pc' = "staleTmp"
    /\ result' = "none"
    /\ ops' = <<>>
    /\ diskAtCall' = disk
    /\ instAtCall' = inst
    /\ maskAtCall' = mask
    /\ UNCHANGED <<disk, edits, inst, alive, mask, failureResults>>

(* Mutant: the stale directory is found but dictDirPath is removed. *)
RemoveStaleTmpOfDictDir ==
    /\ At("staleTmp")
    /\ IF existsDir(disk.tmp)
       THEN \E o \in removeDirAndFiles(disk.canon) :
              /\ disk' = [disk EXCEPT !.canon = o[2]]
              /\ Attempt("removeStaleTmp", o[1])
              /\ IF o[1]
                 THEN pc' = "umask" /\ UNCHANGED <<result, failureResults>>
                 ELSE Return("false")
       ELSE /\ pc' = "umask"
            /\ UNCHANGED <<disk, ops, result, failureResults>>
    /\ UNCHANGED <<edits, inst, alive, mask, diskAtCall, instAtCall, maskAtCall>>

(* Mutant: the stale directory is not removed. *)
RemoveStaleTmpSkipped ==
    /\ At("staleTmp")
    /\ pc' = "umask"
    /\ UNCHANGED <<disk, ops, result, failureResults>>
    /\ UNCHANGED <<edits, inst, alive, mask, diskAtCall, instAtCall, maskAtCall>>

RemoveStaleTmp ==
    /\ At("staleTmp")
    /\ IF existsDir(disk.tmp)
       THEN \E o \in removeDirAndFiles(disk.tmp) :
              /\ disk' = [disk EXCEPT !.tmp = o[2]]
              /\ Attempt("removeStaleTmp", o[1])
              /\ IF o[1]
                 THEN pc' = "umask" /\ UNCHANGED <<result, failureResults>>
                 ELSE Return("false")
       ELSE /\ pc' = "umask"
            /\ UNCHANGED <<disk, ops, result, failureResults>>
    /\ UNCHANGED <<edits, inst, alive, mask, diskAtCall, instAtCall, maskAtCall>>

Umask ==
    /\ At("umask")
    /\ mask' = S_IWGRP_S_IWOTH
    /\ pc' = "mkdir"
    /\ UNCHANGED <<disk, edits, inst, alive, result, ops, diskAtCall, instAtCall,
                   maskAtCall, failureResults>>

MkdirTmp ==
    /\ At("mkdir")
    /\ \E o \in mkdir(disk.tmp) :
         /\ disk' = [disk EXCEPT !.tmp = o[2]]
         /\ Attempt("mkdir", o[1])
         /\ IF o[1]
            THEN pc' = "header" /\ UNCHANGED <<result, failureResults>>
            ELSE Return("false")
    /\ UNCHANGED <<edits, inst, alive, mask, diskAtCall, instAtCall, maskAtCall>>

(* One of the six writes, at position at: buffer from goes to file name    *)
(* under dictPath.                                                         *)
WriteStep(at, name, from, next) ==
    /\ At(at)
    /\ \E o \in flushToFile(disk[DictPathDir], name, BufferBytes(from)) :
         /\ disk' = [disk EXCEPT ![DictPathDir] = o[2]]
         /\ Attempt(name, o[1])
         /\ IF o[1]
            THEN pc' = next /\ UNCHANGED <<result, failureResults>>
            ELSE Return("false")
    /\ UNCHANGED <<edits, inst, alive, mask, diskAtCall, instAtCall, maskAtCall>>

(* Mutant of a write: its returned value is not looked at. *)
WriteStepUnchecked(at, name, from, next) ==
    /\ At(at)
    /\ \E o \in flushToFile(disk[DictPathDir], name, BufferBytes(from)) :
         /\ disk' = [disk EXCEPT ![DictPathDir] = o[2]]
         /\ Attempt(name, o[1])
         /\ pc' = next
         /\ UNCHANGED <<result, failureResults>>
    /\ UNCHANGED <<edits, inst, alive, mask, diskAtCall, instAtCall, maskAtCall>>

(* Mutant: the header write's failure does not end the flush. *)
FlushHeaderUnchecked == WriteStepUnchecked("header", "header", "header", "trie")

FlushHeader == WriteStep("header", "header", "header", "trie")

(* Mutant: the header buffer is written to the trie file. *)
FlushTrieFromHeaderBuffer == WriteStep("trie", "trie", "header", "lookup")

FlushTrie == WriteStep("trie", "trie", "trie", "lookup")

FlushLookup == WriteStep("lookup", "lookup", "lookup", "probability")

FlushProbability ==
    WriteStep("probability", "probability", "probability", "bigram")

(* Mutant: the bigram write's failure does not end the flush. *)
FlushBigramUnchecked == WriteStepUnchecked("bigram", "bigram", "bigram", "shortcut")

FlushBigram == WriteStep("bigram", "bigram", "bigram", "shortcut")

(* Mutant: the shortcut content is emptied once it is written. *)
FlushShortcutConsumes ==
    /\ At("shortcut")
    /\ \E o \in flushToFile(disk[DictPathDir], "shortcut", BufferBytes("shortcut")) :
         /\ disk' = [disk EXCEPT ![DictPathDir] = o[2]]
         /\ Attempt("shortcut", o[1])
         /\ IF o[1]
            THEN pc' = "removeCanonical" /\ UNCHANGED <<result, failureResults>>
            ELSE Return("false")
    /\ inst' = [inst EXCEPT !.buf["shortcut"] = EmptyBytes]
    /\ UNCHANGED <<edits, alive, mask, diskAtCall, instAtCall, maskAtCall>>

FlushShortcut == WriteStep("shortcut", "shortcut", "shortcut", "removeCanonical")

(* Mutant: a failed removal of dictDirPath does not end the flush. *)
RemoveCanonicalUnchecked ==
    /\ At("removeCanonical")
    /\ \E o \in removeDirAndFiles(disk.canon) :
         /\ disk' = [disk EXCEPT !.canon = o[2]]
         /\ Attempt("removeCanonical", o[1])
         /\ pc' = "rename"
         /\ UNCHANGED <<result, failureResults>>
    /\ UNCHANGED <<edits, inst, alive, mask, diskAtCall, instAtCall, maskAtCall>>

(* Mutant: the removal fails when there is no directory at dictDirPath. *)
RemoveCanonicalNeedsDir ==
    /\ At("removeCanonical")
    /\ \E o \in IF existsDir(disk.canon)
                THEN removeDirAndFiles(disk.canon)
                ELSE {<<FALSE, disk.canon>>} :
         /\ disk' = [disk EXCEPT !.canon = o[2]]
         /\ Attempt("removeCanonical", o[1])
         /\ IF o[1]
            THEN pc' = "rename" /\ UNCHANGED <<result, failureResults>>
            ELSE Return("false")
    /\ UNCHANGED <<edits, inst, alive, mask, diskAtCall, instAtCall, maskAtCall>>

RemoveCanonical ==
    /\ At("removeCanonical")
    /\ \E o \in removeDirAndFiles(disk.canon) :
         /\ disk' = [disk EXCEPT !.canon = o[2]]
         /\ Attempt("removeCanonical", o[1])
         /\ IF o[1]
            THEN pc' = "rename" /\ UNCHANGED <<result, failureResults>>
            ELSE Return("false")
    /\ UNCHANGED <<edits, inst, alive, mask, diskAtCall, instAtCall, maskAtCall>>

(* Mutant: a failed rename removes the temporary directory. *)
RenameTmpCleansUp ==
    /\ At("rename")
    /\ \E o \in rename(disk.tmp, disk.canon) :
         /\ disk' = [canon |-> o[3], tmp |-> IF o[1] THEN o[2] ELSE Absent]
         /\ Attempt("rename", o[1])
         /\ Return(IF o[1] THEN "true" ELSE "false")
    /\ UNCHANGED <<edits, inst, alive, mask, diskAtCall, instAtCall, maskAtCall>>

(* Mutant: the file-creation mask is put back before returning. *)
RenameTmpRestoresMask ==
    /\ At("rename")
    /\ \E o \in rename(disk.tmp, disk.canon) :
         /\ disk' = [canon |-> o[3], tmp |-> o[2]]
         /\ Attempt("rename", o[1])
         /\ Return(IF o[1] THEN "true" ELSE "false")
    /\ mask' = maskAtCall
    /\ UNCHANGED <<edits, inst, alive, diskAtCall, instAtCall, maskAtCall>>

RenameTmp ==
    /\ At("rename")
    /\ \E o \in rename(disk.tmp, disk.canon) :
         /\ disk' = [canon |-> o[3], tmp |-> o[2]]
         /\ Attempt("rename", o[1])
         /\ Return(IF o[1] THEN "true" ELSE "false")
    /\ UNCHANGED <<edits, inst, alive, mask, diskAtCall, instAtCall, maskAtCall>>

(* The process is killed between two steps of a flush. *)
Crash ==
    /\ alive
    /\ pc # "idle"
    /\ alive' = FALSE
    /\ UNCHANGED <<disk, edits, inst, pc, result, ops, mask, diskAtCall,
                   instAtCall, maskAtCall, failureResults>>

(* A new process takes over the dictionary. *)
Restart ==
    /\ ~alive
    /\ alive' = TRUE
    /\ pc' = "idle"
    /\ result' = "none"
    /\ ops' = <<>>
    /\ mask' = InheritedMask
    /\ inst' = NoInstance
    /\ diskAtCall' = disk
    /\ instAtCall' = inst'
    /\ maskAtCall' = mask'
    /\ UNCHANGED <<disk, edits, failureResults>>

Init ==
    /\ disk \in {[canon |-> c, tmp |-> t] :
                   c \in {Absent, Image(0)},
                   t \in {Absent, StaleLeftover, RegularFile}}
    /\ edits = 0
    /\ inst = NoInstance
    /\ pc = "idle"
    /\ alive = TRUE
    /\ result = "none"
    /\ ops = <<>>
    /\ mask = InheritedMask
    /\ diskAtCall = disk
    /\ instAtCall = inst
    /\ maskAtCall = mask
    /\ failureResults = [early |-> {}, late |-> {}]

Next ==
    \/ OpenExisting
    \/ CreateFresh
    \/ Close
    \/ Update
    \/ CallFlush
    \/ RemoveStaleTmp
    \/ Umask
    \/ MkdirTmp
    \/ FlushHeader
    \/ FlushTrie
    \/ FlushLookup
    \/ FlushProbability
    \/ FlushBigram
    \/ FlushShortcut
    \/ RemoveCanonical
    \/ RenameTmp
    \/ Crash
    \/ Restart

Spec == Init /\ [][Next]_vars

(***************************************************************************)
(* Properties                                                              *)
(***************************************************************************)

(* The order of the file-system operations of one flush, after the removal *)
(* of a stale temporary directory.                                         *)
FlushOrder == <<"mkdir">> \o Sections \o <<"removeCanonical", "rename">>

OpNames == [i \in 1..Len(ops) |-> ops[i][1]]

IsPrefix(s, t) == Len(s) <= Len(t) /\ \A i \in 1..Len(s) : s[i] = t[i]

LastOp == ops[Len(ops)]

Failed(name) == \E i \in 1..Len(ops) : ops[i] = <<name, FALSE>>

(* The flush returned false and the step that failed is name. *)
ReturnedFailureAt(name) ==
    /\ Idle
    /\ result = "false"
    /\ Len(ops) > 0
    /\ LastOp = <<name, FALSE>>

(* The complete dictionary the flush is to write. *)
Staged == ImageOf(instAtCall.buf)

StagingPositions == {"staleTmp", "umask", "mkdir"} \cup SectionSet

BeforeRenameOps == {"removeStaleTmp", "mkdir", "removeCanonical"} \cup SectionSet

(* C1: a flush over a complete dictionary shows, at every point, either    *)
(* the complete file set of before the flush or the complete file set the  *)
(* flush writes under the dictionary path.                                 *)
C1_Atomicity ==
    IsCompleteImage(diskAtCall.canon) =>
        disk.canon \in {diskAtCall.canon, Staged}

(* C2: a process killed after the six writes and before the rename leaves  *)
(* the dictionary directory as it was before the flush, and a temporary    *)
(* directory.                                                              *)
C2_CrashSafety ==
    (~alive /\ pc \in {"removeCanonical", "rename"}) =>
        /\ disk.canon = diskAtCall.canon
        /\ disk.tmp.kind = "dir"

(* C3: when flush returns false for a failure of any step before the       *)
(* rename, the dictionary directory is what it was when the flush started. *)
C3_FailureBeforeRenameKeepsCanonical ==
    \A name \in BeforeRenameOps :
        ReturnedFailureAt(name) => disk.canon = diskAtCall.canon

C3_Witness ==
    /\ ReturnedFailureAt("shortcut")
    /\ IsCompleteImage(diskAtCall.canon)
    /\ diskAtCall.canon # Staged
    /\ disk.canon = diskAtCall.canon

(* C4: up to and including the last staging write, whether the process     *)
(* goes on, is killed or returns false, the dictionary directory is what   *)
(* it was when the flush started.                                          *)
C4_StagingLeavesCanonical ==
    (\/ pc \in StagingPositions \cup {"removeCanonical"}
     \/ \E name \in SectionSet \cup {"removeStaleTmp", "mkdir"} :
            ReturnedFailureAt(name))
        => disk.canon = diskAtCall.canon

C4_Witness ==
    /\ At("removeCanonical")
    /\ disk.tmp = Staged
    /\ existsDir(diskAtCall.tmp)
    /\ IsCompleteImage(disk.canon)
    /\ disk.canon # disk.tmp

(* C5: the operations of a flush are attempted in the fixed order, each at *)
(* most once and only after every earlier one succeeded; the dictionary    *)
(* directory is removed only after the six writes succeeded.               *)
C5_ProtocolOrder ==
    /\ IsPrefix(IF Len(ops) > 0 /\ ops[1][1] = "removeStaleTmp"
                THEN Tail(OpNames) ELSE OpNames,
                FlushOrder)
    /\ \A i \in 1..(Len(ops) - 1) : ops[i][2]
    /\ \A i \in 1..Len(ops) :
         ops[i][1] = "removeCanonical" =>
            \A s \in SectionSet : \E j \in 1..(i - 1) : ops[j] = <<s, TRUE>>

C5_Witness ==
    /\ Idle
    /\ result = "true"
    /\ OpNames = <<"removeStaleTmp">> \o FlushOrder

(* C6: when flush returns true the dictionary directory holds exactly the  *)
(* six files serialized from the in-memory state passed to the flush, and  *)
(* the temporary directory does not exist.                                 *)
C6_SuccessPostcondition ==
    (Idle /\ result = "true") =>
        /\ disk.canon = Staged
        /\ disk.tmp = Absent

C6_Witness ==
    /\ Idle
    /\ result = "true"
    /\ IsCompleteImage(diskAtCall.canon)
    /\ diskAtCall.canon # Staged
    /\ disk.canon = Staged

(* C7: when one of the six writes fails the flush returns false with the   *)
(* dictionary directory untouched and no temporary directory on disk.      *)
C7_WriteFailureDiscardsTmp ==
    \A s \in SectionSet :
        ReturnedFailureAt(s) =>
            /\ disk.canon = diskAtCall.canon
            /\ disk.tmp.kind = "absent"

(* C8: a flush that starts with the temporary path being a directory       *)
(* removes it and its files before creating the temporary directory, and   *)
(* on success no leftover file is in the dictionary directory; when the    *)
(* removal fails the flush returns false with nothing created or written.  *)
C8_StaleTmpRemovedFirst ==
    existsDir(diskAtCall.tmp) =>
        /\ pc \in {"umask", "mkdir"} => disk.tmp = Absent
        /\ Len(ops) > 0 => ops[1][1] = "removeStaleTmp"
        /\ pc \in SectionSet \cup {"removeCanonical", "rename"} =>
              disk.tmp.files[LeftoverName] = NoFile
        /\ (Idle /\ result = "true") =>
              /\ disk.canon.files[LeftoverName] = NoFile
              /\ disk.canon = Staged
        /\ Failed("removeStaleTmp") =>
              /\ ReturnedFailureAt("removeStaleTmp")
              /\ Len(ops) = 1
              /\ disk = diskAtCall

C8_Witness ==
    /\ Idle
    /\ result = "true"
    /\ diskAtCall.tmp = StaleLeftover
    /\ ops[1] = <<"removeStaleTmp", TRUE>>
    /\ disk.canon = Staged

(* C9: a failed removal of the dictionary directory ends the flush with    *)
(* false and no rename; the temporary directory holds the six staged files *)
(* and the dictionary directory is what it was.                            *)
C9_CanonicalRemovalFailure ==
    Failed("removeCanonical") =>
        /\ ReturnedFailureAt("removeCanonical")
        /\ \A i \in 1..Len(ops) : ops[i][1] # "rename"
        /\ disk.tmp = Staged
        /\ disk.canon = diskAtCall.canon

C9_Witness ==
    /\ ReturnedFailureAt("removeCanonical")
    /\ IsCompleteImage(disk.canon)
    /\ disk.canon # Staged
    /\ disk.tmp = Staged

(* C10: a failed rename ends the flush with false; the dictionary          *)
(* directory is absent, the temporary directory holds the six staged       *)
(* files, and the rename was attempted once.                               *)
C10_RenameFailure ==
    Failed("rename") =>
        /\ ReturnedFailureAt("rename")
        /\ Cardinality({i \in 1..Len(ops) : ops[i][1] = "rename"}) = 1
        /\ disk.canon = Absent
        /\ disk.tmp = Staged

C10_Witness ==
    /\ ReturnedFailureAt("rename")
    /\ IsCompleteImage(diskAtCall.canon)
    /\ disk.canon = Absent
    /\ disk.tmp = Staged

(* C11: a failure of the rename and a failure of an earlier step never    *)
(* give the caller the same returned value.                                *)
C11_FailureClassesDistinct ==
    failureResults.early \cap failureResults.late = {}

(* C12: openVer4DictBuffers with no header buffer returns the null handle  *)
(* and opens no file; with a header buffer it constructs the instance,     *)
(* opening the trie file and the four contents.                            *)
C12_MissingHeader ==
    inst.origin \in {"invalid", "opened"} =>
        IF inst.headerArg = "null"
        THEN /\ inst.origin = "invalid"
             /\ inst.opened = {}
             /\ inst.mDictBuffer = "unset"
        ELSE /\ inst.origin = "opened"
             /\ {o[1] : o \in inst.opened} = {"trie"} \cup ContentSet
             /\ inst.mDictBuffer # "unset"

C12_Witness ==
    /\ inst.origin = "invalid"
    /\ inst.headerArg = "null"
    /\ IsCompleteImage(disk.canon)

(* C13: the updatable flag of an instance is the writability of the header *)
(* buffer it was opened with, the trie file and the four contents are      *)
(* opened with that flag, a fresh instance is updatable, and the flag of   *)
(* an instance never changes.                                              *)
C13_UpdatableFixed ==
    /\ [](/\ inst.origin = "opened" =>
               /\ inst.mIsUpdatable = (inst.headerArg = "rw")
               /\ inst.opened =
                    {<<n, inst.mIsUpdatable>> : n \in {"trie"} \cup ContentSet}
          /\ inst.origin = "fresh" => inst.mIsUpdatable)
    /\ [][(IsInstance(inst) /\ IsInstance(inst'))
             => inst'.mIsUpdatable = inst.mIsUpdatable]_vars

C13_Witness ==
    /\ inst.origin = "opened"
    /\ inst.headerArg = "ro"
    /\ ~inst.mIsUpdatable
    /\ Idle
    /\ result = "true"

AfterUmaskPositions == {"mkdir", "removeCanonical", "rename"} \cup SectionSet

(* C16: a flush that gets past the stale directory sets the file-creation  *)
(* mask to S_IWGRP | S_IWOTH before mkdir and returns with that mask; a    *)
(* flush that fails to remove the stale directory returns with the mask    *)
(* it was called with.                                                     *)
C16_UmaskNotRestored ==
    /\ pc \in AfterUmaskPositions => mask = S_IWGRP_S_IWOTH
    /\ (Idle /\ result # "none") =>
          IF ReturnedFailureAt("removeStaleTmp")
          THEN mask = maskAtCall
          ELSE mask = S_IWGRP_S_IWOTH

C16_Witness ==
    /\ Idle
    /\ result = "true"
    /\ maskAtCall = InheritedMask
    /\ mask = S_IWGRP_S_IWOTH
    /\ mask # maskAtCall

(* C17: no step of a flush, whatever it returns, changes the instance: its *)
(* header, trie and content buffers and its updatable flag.                *)
C17_FlushKeepsInstance ==
    [][(alive /\ alive' /\ (pc # "idle" \/ pc' # "idle")) => inst' = inst]_vars

C17_Witness ==
    /\ ReturnedFailureAt("rename")
    /\ inst = instAtCall
    /\ inst.buf = GenBuf(edits)
    /\ edits > 0

(* C18: during and after a flush that started with a complete dictionary   *)
(* at the dictionary path, a complete dictionary is on disk: the old one   *)
(* at the dictionary path, or the new one at the temporary path or at the  *)
(* dictionary path.                                                        *)
C18_SomeCompleteImage ==
    IsCompleteImage(diskAtCall.canon) =>
        \/ disk.canon = diskAtCall.canon
        \/ disk.tmp = Staged
        \/ disk.canon = Staged

C18_Witness ==
    /\ ~alive
    /\ pc = "rename"
    /\ IsCompleteImage(diskAtCall.canon)
    /\ disk.canon = Absent
    /\ disk.tmp = Staged

(* C19: opening with a header buffer and a trie file that cannot be mapped *)
(* still returns an instance; its trie buffer has no base and length 0 and *)
(* its four contents are constructed from the directory.                   *)
C19_TrieOpenFailure ==
    (inst.origin \in {"invalid", "opened"} /\ inst.mDictBuffer = "null") =>
        /\ inst.origin = "opened"
        /\ inst.trieBaseLength = 0
        /\ ContentSet \subseteq {o[1] : o \in inst.opened}

C19_Witness ==
    /\ inst.origin = "opened"
    /\ inst.mDictBuffer = "null"
    /\ inst.trieBaseLength = 0
    /\ inst.buf["trie"] = EmptyBytes
    /\ inst.buf["lookup"] = <<"lookup", 0>>
    /\ IsWhole(disk.canon.files["trie"])

TypeOK ==
    /\ edits \in 0..MaxEdits
    /\ alive \in BOOLEAN
    /\ result \in {"none", "true", "false"}
    /\ disk.canon.kind \in {"absent", "dir"}
    /\ disk.tmp.kind \in {"absent", "dir", "file"}
====
